---- MODULE Spec2Model ----
(***************************************************************************)
(* truelink: a URL shortener whose redirect page tries to open the         *)
(* destination inside a native app.  This module models                    *)
(*   - the resolver of backend/server.js (isValidUrl, detectApp,           *)
(*     parseMailto, parseGmailWeb, buildChromeScheme, buildDeepLink),      *)
(*     over JavaScript strings, which are TLA+ strings here;               *)
(*   - the inline redirect script of the page served by GET /r/:id.        *)
(* JavaScript's null is <<>> and a non-null string s is <<s>> wherever a   *)
(* value may be null (Maybe values).  A thrown exception is a record with  *)
(* threw = TRUE.                                                           *)
(***************************************************************************)
EXTENDS Integers, Sequences, FiniteSets, TLC

----------------------------------------------------------------------------
(* JavaScript string primitives.                                           *)

Null == <<>>
Some(s) == <<s>>
IsNull(m) == m = <<>>
Val(m) == m[1]
\* JavaScript truthiness of a string-or-null value: null and "" are falsy.
Truthy(m) == m # <<>> /\ m[1] # ""
\* (m || d) for a string-or-null m and a string d.
OrElse(m, d) == IF Truthy(m) THEN m[1] ELSE d

\* str.charAt(i - 1): "" outside the string.
Ch(s, i) == IF i >= 1 /\ i <= Len(s) THEN SubSeq(s, i, i) ELSE ""
\* str.slice(i - 1)
From(s, i) == IF i > Len(s) THEN "" ELSE SubSeq(s, i, Len(s))

SetMin(S) == CHOOSE x \in S : \A y \in S : x <= y
SetMax(S) == CHOOSE x \in S : \A y \in S : x >= y

\* String.prototype.indexOf, 1-based; 0 when p does not occur in s.
Occurrences(s, p) == {i \in 1..(Len(s) + 1 - Len(p)) : SubSeq(s, i, i + Len(p) - 1) = p}
MinOr0(I) == IF I = {} THEN 0 ELSE SetMin(I)
MaxOr0(I) == IF I = {} THEN 0 ELSE SetMax(I)
IndexOf(s, p) == MinOr0(Occurrences(s, p))
LastIndexOf(s, p) == MaxOr0(Occurrences(s, p))

includes(s, p) == IndexOf(s, p) # 0
startsWith(s, p) == Len(p) <= Len(s) /\ SubSeq(s, 1, Len(p)) = p
endsWith(s, p) == Len(p) <= Len(s) /\ SubSeq(s, Len(s) + 1 - Len(p), Len(s)) = p

\* The set of the characters of a string.
Chars(s) == {SubSeq(s, i, i) : i \in 1..Len(s)}
\* Every character of s is in the set cls.
AllIn(s, cls) == \A i \in 1..Len(s) : Ch(s, i) \in cls

\* The concatenation of a sequence of strings.
RECURSIVE Concat(_)
Concat(ss) ==
    IF ss = <<>> THEN ""
    ELSE IF Len(ss) = 1 THEN ss[1]
    ELSE Concat(SubSeq(ss, 1, Len(ss) \div 2))
         \o Concat(SubSeq(ss, (Len(ss) \div 2) + 1, Len(ss)))

RECURSIVE Join(_, _)
Join(ss, sep) ==
    IF ss = <<>> THEN ""
    ELSE IF Len(ss) = 1 THEN ss[1]
    ELSE ss[1] \o sep \o Join(Tail(ss), sep)

\* String.prototype.split(sep) for a one-character separator.
RECURSIVE Split(_, _)
RECURSIVE SplitAt(_, _, _)
SplitAt(s, sep, i) ==
    IF i = 0 THEN <<s>> ELSE <<SubSeq(s, 1, i - 1)>> \o Split(From(s, i + 1), sep)
Split(s, sep) == SplitAt(s, sep, IndexOf(s, sep))

Lower == "abcdefghijklmnopqrstuvwxyz"
Upper == "ABCDEFGHIJKLMNOPQRSTUVWXYZ"
HexUp == "0123456789ABCDEF"
HexLo == "0123456789abcdef"
Digit == Chars("0123456789")
Alpha == Chars(Lower) \cup Chars(Upper)
AlNum == Alpha \cup Digit

LowerTable == [c \in Chars(Upper) |-> Ch(Lower, IndexOf(Upper, c))]
LowerCh(c) == IF c \in DOMAIN LowerTable THEN LowerTable[c] ELSE c
toLowerCase(s) == Concat([i \in 1..Len(s) |-> LowerCh(Ch(s, i))])

\* String.prototype.trim over the space character.
RECURSIVE trim(_)
trim(s) ==
    IF s = "" THEN ""
    ELSE IF Ch(s, 1) = " " THEN trim(Tail(s))
    ELSE IF Ch(s, Len(s)) = " " THEN trim(SubSeq(s, 1, Len(s) - 1))
    ELSE s

\* The printable ASCII characters U+0020 .. U+005F and U+0061 .. U+007E, in
\* code order (a TLA+ string cannot hold U+0060, which is outside the
\* modelled alphabet).
AsciiLo == " !\"#$%&'()*+,-./0123456789:;<=>?@ABCDEFGHIJKLMNOPQRSTUVWXYZ[\\]^_"
AsciiHi == "abcdefghijklmnopqrstuvwxyz{|}~"
CodeTable ==
    [c \in Chars(AsciiLo) \cup Chars(AsciiHi) |->
        IF includes(AsciiLo, c) THEN 31 + IndexOf(AsciiLo, c)
        ELSE 96 + IndexOf(AsciiHi, c)]
Code(c) == CodeTable[c]
Hex2(n) == SubSeq(HexUp, (n \div 16) + 1, (n \div 16) + 1) \o SubSeq(HexUp, (n % 16) + 1, (n % 16) + 1)
HexTable ==
    [c \in Chars(HexUp) \cup Chars(HexLo) |->
        IF includes(HexUp, c) THEN IndexOf(HexUp, c) - 1 ELSE IndexOf(HexLo, c) - 1]
HexVal(c) == HexTable[c]
IsHex(c) == c \in DOMAIN HexTable
IsPrintable(b) == b \in {CodeTable[c] : c \in DOMAIN CodeTable}
\* The character of byte b.  A byte below U+0080 that is outside the modelled
\* alphabet is written as a token naming it; a byte from U+0080 on is, in the
\* inputs of this model, never part of a well-formed UTF-8 sequence.
CharOf(b) ==
    IF ~IsPrintable(b) THEN "<0x" \o Hex2(b) \o ">"
    ELSE CHOOSE c \in DOMAIN CodeTable : CodeTable[c] = b
\* What a lossy UTF-8 decoder yields for a byte that is not UTF-8: U+FFFD.
Replacement == "<U+FFFD>"

\* Percent-encode every character of s that is not in the set keep.
PctEncode(s, keep) ==
    Concat([i \in 1..Len(s) |->
        IF Ch(s, i) \in keep THEN Ch(s, i) ELSE "%" \o Hex2(Code(Ch(s, i)))])

\* encodeURIComponent (ECMA-262): A-Z a-z 0-9 - _ . ! ~ * ' ( ) are kept.
UriUnreserved == AlNum \cup Chars("-_.!~*'()")
encodeURIComponent(s) == PctEncode(s, UriUnreserved)

\* A piece of a string that follows one of its "%" characters: whether it
\* starts with two hexadecimal digits, and the byte they denote.
IsEscapeTail(p) == Len(p) >= 2 /\ IsHex(Ch(p, 1)) /\ IsHex(Ch(p, 2))
TailByte(p) == 16 * HexVal(Ch(p, 1)) + HexVal(Ch(p, 2))
DecodeByte(b) == IF b < 128 THEN CharOf(b) ELSE Replacement
DecodePiece(p) ==
    IF IsEscapeTail(p) THEN DecodeByte(TailByte(p)) \o From(p, 3) ELSE "%" \o p
DecodePieces(pieces) ==
    Concat([k \in 1..Len(pieces) |-> IF k = 1 THEN pieces[k] ELSE DecodePiece(pieces[k])])

\* The URL standard's percent-decode followed by a lossy UTF-8 decode: a
\* malformed escape is left as it is.
PercentDecode(s) == DecodePieces(Split(s, "%"))

\* decodeURIComponent (ECMA-262) throws URIError on a "%" that is not
\* followed by two hexadecimal digits and on bytes that are not UTF-8.
PiecesThrow(pieces) ==
    \E k \in 2..Len(pieces) :
        ~IsEscapeTail(pieces[k]) \/ TailByte(pieces[k]) >= 128
DecodeThrows(s) == PiecesThrow(Split(s, "%"))
\* Its value when it does not throw.
decodeURIComponent(s) == PercentDecode(s)

----------------------------------------------------------------------------
(* new URL(str), without a base URL: the URL standard's basic parser, for  *)
(* printable-ASCII input.  Not modelled, and absent from the inputs: the   *)
(* file scheme, IPv6 and numeric (IPv4) hosts, non-ASCII domains.          *)

\* Percent-encode the characters of s that are in the set enc.
PctEncodeSet(s, enc) ==
    Concat([i \in 1..Len(s) |->
        IF Ch(s, i) \in enc THEN "%" \o Hex2(Code(Ch(s, i))) ELSE Ch(s, i)])

FragmentEncodeSet == Chars(" \"<>")
QueryEncodeSet == Chars(" \"#<>")
SpecialQueryEncodeSet == QueryEncodeSet \cup {"'"}
PathEncodeSet == QueryEncodeSet \cup Chars("?^{}")
ForbiddenHost == Chars(" #/:<>?@[\\]^|")
ForbiddenDomain == ForbiddenHost \cup {"%"}
SchemeChars == AlNum \cup Chars("+-.")
FormKept == AlNum \cup Chars("*-._")

SpecialSchemes == {"http", "https", "ftp", "ws", "wss"}
DefaultPort(scheme) ==
    CASE scheme = "http" -> "80"
      [] scheme = "ws" -> "80"
      [] scheme = "https" -> "443"
      [] scheme = "wss" -> "443"
      [] scheme = "ftp" -> "21"
      [] OTHER -> ""

BackslashToSlash(s) ==
    Concat([i \in 1..Len(s) |-> IF Ch(s, i) = "\\" THEN "/" ELSE Ch(s, i)])

RECURSIVE StripSlashes(_)
StripSlashes(s) == IF s # "" /\ Ch(s, 1) = "/" THEN StripSlashes(Tail(s)) ELSE s

\* The path state: "." and ".." segments are resolved, the others encoded.
RECURSIVE PathSegments(_, _)
Pop(acc) == IF acc = <<>> THEN acc ELSE SubSeq(acc, 1, Len(acc) - 1)
PathStep(seg, last, acc) ==
    IF seg = ".." THEN (IF last THEN Append(Pop(acc), "") ELSE Pop(acc))
    ELSE IF seg = "." THEN (IF last THEN Append(acc, "") ELSE acc)
    ELSE Append(acc, PctEncodeSet(seg, PathEncodeSet))
PathSegments(segs, acc) ==
    IF segs = <<>> THEN acc
    ELSE PathSegments(Tail(segs), PathStep(Head(segs), Len(segs) = 1, acc))

\* The serialized path of a path that starts with "/".
ListPath(raw) == "/" \o Join(PathSegments(Split(Tail(raw), "/"), <<>>), "/")

Failure == [ok |-> FALSE]

\* s cut at position i: what is before it and after it (i = 0: no cut).
CutAt(s, i) ==
    [found |-> i > 0,
     head |-> IF i > 0 THEN SubSeq(s, 1, i - 1) ELSE s,
     tail |-> IF i > 0 THEN From(s, i + 1) ELSE ""]
\* s cut at its first sep.
Cut(s, sep) == CutAt(s, IndexOf(s, sep))
\* s cut at its last sep.
CutLast(s, sep) == CutAt(s, LastIndexOf(s, sep))

\* The URL record: the getters of a URL object that the code reads.  q is
\* the input cut at its first "?" (before any "#"), h at its first "#".
MakeURL(scheme, special, hasAuthority, authority, hostname, pathname, q, h) ==
    [ok |-> TRUE,
     protocol |-> scheme \o ":",
     hostname |-> hostname,
     pathname |-> pathname,
     query |-> PctEncodeSet(q.tail, IF special THEN SpecialQueryEncodeSet ELSE QueryEncodeSet),
     fragment |-> PctEncodeSet(h.tail, FragmentEncodeSet),
     hasQuery |-> q.found,
     hasHash |-> h.found,
     origin |-> scheme \o ":" \o (IF hasAuthority THEN "//" \o authority ELSE "")]

\* The host state: hp is host:port cut at ":", cred the credentials with
\* their "@".
ParseHost(scheme, special, cred, hp, host, pathRaw, q, h) ==
    IF \/ ~AllIn(hp.tail, Digit)
       \/ special /\ (host = "" \/ Chars(host) \cap ForbiddenDomain # {})
       \/ ~special /\ Chars(host) \cap ForbiddenHost # {}
    THEN Failure
    ELSE MakeURL(scheme, special, TRUE,
                 cred \o host
                     \o (IF hp.tail = "" \/ hp.tail = DefaultPort(scheme) THEN ""
                         ELSE ":" \o hp.tail),
                 host,
                 IF pathRaw = "" THEN (IF special THEN "/" ELSE "") ELSE ListPath(pathRaw),
                 q, h)

\* The authority state: u is the authority cut at its last "@".
ParseCredentials(scheme, special, u, hp, pathRaw, q, h) ==
    IF u.found /\ u.tail = "" THEN Failure
    ELSE ParseHost(scheme, special, IF u.found THEN u.head \o "@" ELSE "", hp,
                   IF special THEN toLowerCase(PercentDecode(hp.head)) ELSE hp.head,
                   pathRaw, q, h)

\* a is what follows the slashes, cut at its first "/".
ParseAuthority(scheme, special, a, q, h) ==
    ParseCredentials(scheme, special, CutLast(a.head, "@"),
                     Cut(CutLast("@" \o a.head, "@").tail, ":"),
                     IF a.found THEN "/" \o a.tail ELSE "", q, h)

\* After the scheme: q is the rest cut at "?", h the rest cut at "#".
ParseAfterScheme(scheme, q, h) ==
    IF scheme \in SpecialSchemes
    THEN ParseAuthority(scheme, TRUE, Cut(StripSlashes(BackslashToSlash(q.head)), "/"), q, h)
    ELSE IF startsWith(q.head, "//")
    THEN ParseAuthority(scheme, FALSE, Cut(From(q.head, 3), "/"), q, h)
    ELSE MakeURL(scheme, FALSE, FALSE, "", "",
                 IF startsWith(q.head, "/") THEN ListPath(q.head) ELSE q.head, q, h)

ParseHashCut(scheme, h) == ParseAfterScheme(scheme, Cut(h.head, "?"), h)

\* c is the trimmed input cut at its first ":".
ParseScheme(c) ==
    IF ~(c.found /\ Ch(c.head, 1) \in Alpha /\ AllIn(c.head, SchemeChars))
    THEN Failure
    ELSE ParseHashCut(toLowerCase(c.head), Cut(c.tail, "#"))

ParseURL(str) == ParseScheme(Cut(trim(str), ":"))

\* The getters search and hash of a parsed URL, and its toString().
search(u) == IF u.query = "" THEN "" ELSE "?" \o u.query
hash(u) == IF u.fragment = "" THEN "" ELSE "#" \o u.fragment
toString(u) ==
    u.origin \o u.pathname
    \o (IF u.hasQuery THEN "?" \o u.query ELSE "")
    \o (IF u.hasHash THEN "#" \o u.fragment ELSE "")

\* URLSearchParams: a sequence of <<name, value>> pairs.
PlusToSpace(s) ==
    Concat([i \in 1..Len(s) |-> IF Ch(s, i) = "+" THEN " " ELSE Ch(s, i)])

\* One name=value part, cut at its first "=".
ParsePair(c) == <<PercentDecode(PlusToSpace(c.head)), PercentDecode(PlusToSpace(c.tail))>>

\* The application/x-www-form-urlencoded parser: empty parts are skipped.
ParsePairs(parts) ==
    [k \in 1..Len(parts) |-> ParsePair(Cut(parts[k], "="))]

\* u.searchParams
searchParams(u) == ParsePairs(SelectSeq(Split(u.query, "&"), LAMBDA part : part # ""))

\* URLSearchParams.prototype.get: the first value of the name, or null.
FirstOf(p, I) == IF I = {} THEN Null ELSE Some(p[SetMin(I)][2])
get(p, name) == FirstOf(p, {i \in 1..Len(p) : p[i][1] = name})

\* URLSearchParams.prototype.set: replace the first pair of the name and drop
\* its other pairs, or append.
SetAt(p, name, value, first) ==
    IF first = 0 THEN Append(p, <<name, value>>)
    ELSE SubSeq(p, 1, first - 1) \o << <<name, value>> >>
         \o SelectSeq(SubSeq(p, first + 1, Len(p)), LAMBDA pair : pair[1] # name)
set(p, name, value) == SetAt(p, name, value, MinOr0({i \in 1..Len(p) : p[i][1] = name}))

\* The application/x-www-form-urlencoded serializer.
FormEncode(s) ==
    Concat([i \in 1..Len(s) |->
        IF Ch(s, i) \in FormKept THEN Ch(s, i)
        ELSE IF Ch(s, i) = " " THEN "+"
        ELSE "%" \o Hex2(Code(Ch(s, i)))])

\* URLSearchParams.prototype.toString.
ParamsToString(p) ==
    Join([i \in 1..Len(p) |-> FormEncode(p[i][1]) \o "=" \o FormEncode(p[i][2])], "&")

----------------------------------------------------------------------------------------------------------------------------------------
(* backend/server.js: the resolver.                                        *)

\* A call that returned v, and a call that threw.
Returned(v) == [threw |-> FALSE, value |-> v]
Thrown(e) == [threw |-> TRUE, error |-> e]

\* isValidUrl: new URL throwing is caught and answered false.
ValidProtocol(u) ==
    u.ok /\ (u.protocol = "http:" \/ u.protocol = "https:" \/ u.protocol = "mailto:")
isValidUrl(str) == ValidProtocol(ParseURL(str))

\* parseMailto: decodeURIComponent is its only call that can throw.
MailtoRecord(to, p) ==
    [to |-> to,
     subject |-> OrElse(get(p, "subject"), OrElse(get(p, "su"), "")),
     body |-> OrElse(get(p, "body"), ""),
     cc |-> OrElse(get(p, "cc"), ""),
     bcc |-> OrElse(get(p, "bcc"), "")]
MailtoFields(u) ==
    IF DecodeThrows(u.pathname) THEN Thrown("URIError")
    ELSE Returned(MailtoRecord(trim(decodeURIComponent(u.pathname)), searchParams(u)))
parseMailto(urlStr) == MailtoFields(ParseURL(urlStr))

GmailWebRecord(p) ==
    [to |-> OrElse(get(p, "to"), ""),
     subject |-> OrElse(get(p, "su"), ""),
     body |-> OrElse(get(p, "body"), ""),
     cc |-> OrElse(get(p, "cc"), ""),
     bcc |-> OrElse(get(p, "bcc"), "")]
parseGmailWeb(u) == GmailWebRecord(searchParams(u))

\* str.replace(/^www\./, "")
StripWww(str) == IF startsWith(str, "www.") THEN From(str, 5) ELSE str

\* The meta object: an absent property (undefined) is Null.
Meta(kind, fields, u) == [kind |-> kind, fields |-> fields, u |-> u]

\* The host rules of detectApp, in the order of its if statements: the tag of
\* the first rule that matches, or null.
HostRule(host) ==
    IF includes(host, "youtube.com") \/ host = "youtu.be" THEN Some("youtube")
    ELSE IF host = "wa.me" \/ includes(host, "whatsapp.com") THEN Some("whatsapp")
    ELSE IF host = "t.me" \/ includes(host, "telegram.me") \/ includes(host, "telegram.org")
         THEN Some("telegram")
    ELSE IF includes(host, "instagram.com") THEN Some("instagram")
    ELSE IF startsWith(host, "amazon.") \/ includes(host, "amazon.") THEN Some("amazon")
    ELSE IF includes(host, "twitter.com") \/ includes(host, "x.com") THEN Some("twitter")
    ELSE IF includes(host, "facebook.com") THEN Some("facebook")
    ELSE Null

\* The Gmail web compose rule.
IsCompose(p) ==
    get(p, "view") = Some("cm") \/ get(p, "compose") = Some("1") \/ get(p, "fs") = Some("1")
IsGmailWeb(u) ==
    /\ StripWww(u.hostname) = "mail.google.com"
    /\ startsWith(u.pathname, "/mail/")
    /\ IsCompose(searchParams(u))

\* What the catch block of detectApp returns.
DetectCaught == [app |-> Null, meta |-> Meta(Null, Null, Null)]

\* The mailto rule: f is the outcome of parseMailto.
DetectMailto(f) ==
    IF f.threw THEN DetectCaught
    ELSE [app |-> Some("gmail"), meta |-> Meta(Some("mailto"), Some(f.value), Null)]

\* The body of detectApp's try block, u being new URL(urlStr).
DetectParsed(urlStr, u) ==
    IF ~u.ok THEN DetectCaught
    ELSE IF u.protocol = "mailto:" THEN DetectMailto(parseMailto(urlStr))
    ELSE IF IsGmailWeb(u)
    THEN [app |-> Some("gmail"), meta |-> Meta(Some("web"), Some(parseGmailWeb(u)), Some(u))]
    ELSE [app |-> HostRule(StripWww(u.hostname)), meta |-> Meta(Null, Null, Some(u))]

detectApp(urlStr) == DetectParsed(urlStr, ParseURL(urlStr))

\* str.replace(/^https?:\/\//, "")
StripHttp(str) ==
    IF startsWith(str, "https://") THEN From(str, 9)
    ELSE IF startsWith(str, "http://") THEN From(str, 8)
    ELSE str

buildChromeScheme(fallbackHttps) == "googlechrome://" \o StripHttp(fallbackHttps)

asHostPath(urlObj) == urlObj.hostname \o urlObj.pathname \o search(urlObj) \o hash(urlObj)

\* An intent URL: the package is left out when it is "".
FallbackParam == "S.browser_fallback_url="
IntentEnd == ";end"
IntentUrl(hostPath, scheme, package, encFB) ==
    "intent://" \o hostPath \o "#Intent;scheme=" \o scheme
    \o (IF package = "" THEN "" ELSE ";package=" \o package)
    \o ";" \o FallbackParam \o encFB \o IntentEnd

\* The URLSearchParams built by setting, in order, the truthy values.
RECURSIVE SetTruthy(_, _)
SetTruthy(p, pairs) ==
    IF pairs = <<>> THEN p
    ELSE SetTruthy(IF pairs[1][2] # "" THEN set(p, pairs[1][1], pairs[1][2]) ELSE p,
                   Tail(pairs))

\* The descriptor buildDeepLink returns; ios is a string or null.
Descriptor(ios, androidIntent, fallbackHttps, chromeScheme) ==
    [ios |-> ios, androidIntent |-> androidIntent,
     fallbackHttps |-> fallbackHttps, chromeScheme |-> chromeScheme]

\* case "youtube": <<ios, androidIntent>>
VideoId(u, v) ==
    IF ~Truthy(v) /\ u.hostname = "youtu.be" THEN Some(Tail(u.pathname)) ELSE v
YoutubeLinks(vId, encFB) ==
    << Some(IF Truthy(vId) THEN "youtube://watch?v=" \o Val(vId) ELSE "youtube://"),
       IntentUrl(IF Truthy(vId)
                 THEN "www.youtube.com/watch?v=" \o encodeURIComponent(Val(vId))
                 ELSE asHostPath(ParseURL("https://www.youtube.com")),
                 "https", "com.google.android.youtube", encFB) >>
YoutubeCase(u, encFB) == YoutubeLinks(VideoId(u, get(searchParams(u), "v")), encFB)

\* str.replace(/^\/send\/?/, "")
StripSend(pathname) ==
    IF startsWith(pathname, "/send/") THEN From(pathname, 7)
    ELSE IF startsWith(pathname, "/send") THEN From(pathname, 6)
    ELSE pathname
\* str.replace(/\//g, "")
RemoveSlashes(s) == Concat([i \in 1..Len(s) |-> IF Ch(s, i) = "/" THEN "" ELSE Ch(s, i)])
PathDigits(pathname) == RemoveSlashes(StripSend(pathname))

MinPhoneDigits == 6
MaxPhoneDigits == 15
\* /^\d{6,15}$/.test(s)
IsPhone(s) == Len(s) >= MinPhoneDigits /\ Len(s) <= MaxPhoneDigits /\ AllIn(s, Digit)

\* case "whatsapp"
Phone(p, pathDigits) == OrElse(p, IF IsPhone(pathDigits) THEN pathDigits ELSE "")
WhatsappQuery(phone, text) ==
    ParamsToString(SetTruthy(<<>>, << <<"phone", phone>>, <<"text", text>> >>))
WhatsappLinks(q, encFB) ==
    << Some(IF q # "" THEN "whatsapp://send?" \o q ELSE "whatsapp://send"),
       IntentUrl("send" \o (IF q # "" THEN "?" \o q ELSE ""), "whatsapp", "com.whatsapp", encFB) >>
WhatsappParams(u, p, encFB) ==
    WhatsappLinks(WhatsappQuery(Phone(get(p, "phone"), PathDigits(u.pathname)),
                                OrElse(get(p, "text"), "")), encFB)
WhatsappCase(u, encFB) == WhatsappParams(u, searchParams(u), encFB)

UserChars == AlNum \cup {"_"}
MinUserLen == 5
MaxUserLen == 32
\* IsUser without the upper limit of the quantifier.
IsUserUnbounded(path) == Len(path) >= MinUserLen /\ AllIn(path, UserChars)

\* path.match(/^([A-Za-z0-9_]{5,32})$/)
IsUser(path) == Len(path) >= MinUserLen /\ Len(path) <= MaxUserLen /\ AllIn(path, UserChars)

\* case "telegram"
TelegramLinks(u, path, encFB) ==
    << IF IsUser(path) THEN Some("tg://resolve?domain=" \o path) ELSE Null,
       IntentUrl(asHostPath(u), "https", "org.telegram.messenger", encFB) >>
TelegramCase(u, encFB) ==
    TelegramLinks(u, IF startsWith(u.pathname, "/") THEN Tail(u.pathname) ELSE u.pathname, encFB)

\* case "instagram"
InstagramLinks(u, parts, encFB) ==
    << Some(IF parts # <<>> /\ parts[1] # "p"
            THEN "instagram://user?username=" \o encodeURIComponent(parts[1])
            ELSE "instagram://"),
       IntentUrl(asHostPath(u), "https", "com.instagram.android", encFB) >>
InstagramCase(u, encFB) ==
    InstagramLinks(u, SelectSeq(Split(u.pathname, "/"), LAMBDA x : x # ""), encFB)

\* case "amazon"
AmazonCase(u, encFB) ==
    << Some("amazon://"),
       IntentUrl(asHostPath(u), "https", "com.amazon.mShop.android.shopping", encFB) >>

\* pathname.match(/\/status\/(\d+)/): the digits captured by the leftmost
\* match, or null.
RECURSIVE DigitRun(_)
DigitRun(s) ==
    IF s # "" /\ Ch(s, 1) \in Digit THEN Ch(s, 1) \o DigitRun(Tail(s)) ELSE ""
StatusMarker == "/status/"
StatusAt(pathname, i) ==
    IF i = 0 THEN Null ELSE Some(DigitRun(From(pathname, i + Len(StatusMarker))))
StatusId(pathname) ==
    StatusAt(pathname,
             MinOr0({i \in Occurrences(pathname, StatusMarker) :
                        Ch(pathname, i + Len(StatusMarker)) \in Digit}))

\* case "twitter"
TwitterLinks(u, statusIdMatch, encFB) ==
    << Some(IF IsNull(statusIdMatch) THEN "twitter://"
            ELSE "twitter://status?id=" \o Val(statusIdMatch)),
       IntentUrl(asHostPath(u), "https", "com.twitter.android", encFB) >>
TwitterCase(u, encFB) == TwitterLinks(u, StatusId(u.pathname), encFB)

\* case "facebook"
FacebookCase(u, encFB) ==
    << Some("fb://"), IntentUrl(asHostPath(u), "https", "com.facebook.katana", encFB) >>

\* default: u.protocol.replace(":", "") is the scheme of the intent
DefaultCase(u, encFB) ==
    << Null,
       IntentUrl(asHostPath(u), SubSeq(u.protocol, 1, Len(u.protocol) - 1), "", encFB) >>

\* The Gmail web-compose URL of the fields m, as gmailWeb.toString() gives it.
GmailWebStr(m) ==
    "https://mail.google.com/mail/?"
    \o ParamsToString(SetTruthy(<< <<"view", "cm">>, <<"fs", "1">> >>,
           << <<"to", m.to>>, <<"su", m.subject>>, <<"body", m.body>>,
              <<"cc", m.cc>>, <<"bcc", m.bcc>> >>))

\* The query of the Gmail app links.
GmailQuery(m) ==
    ParamsToString(SetTruthy(<<>>,
        << <<"to", m.to>>, <<"subject", m.subject>>, <<"body", m.body>>,
           <<"cc", m.cc>>, <<"bcc", m.bcc>> >>))

\* GmailFallback with the address itself as the fallback of a mailto link.
GmailFallbackMailto(meta) ==
    IF meta.kind = Some("web") THEN toString(Val(meta.u))
    ELSE "mailto:" \o Val(meta.fields).to

\* The fallback of the redirect page for a Gmail link: the original URL when it
\* was a Gmail web URL, the web-compose URL when it was a mailto.
GmailFallback(meta) ==
    IF meta.kind = Some("web")
    THEN (IF ~IsNull(meta.u) THEN toString(Val(meta.u)) ELSE GmailWebStr(Val(meta.fields)))
    ELSE GmailWebStr(Val(meta.fields))

\* The browser fallback the Gmail intent URL is given.
GmailIntentFallback(meta) == GmailWebStr(Val(meta.fields))

\* case "gmail": returns its own descriptor
GmailDescriptor(q, intentFallback, fb) ==
    Descriptor(Some("googlegmail:///co?" \o q),
               "intent://compose?" \o q
                   \o "#Intent;scheme=mailto;package=com.google.android.gm;"
                   \o FallbackParam \o encodeURIComponent(intentFallback) \o IntentEnd,
               fb,
               buildChromeScheme(fb))
GmailCase(meta) ==
    GmailDescriptor(GmailQuery(Val(meta.fields)), GmailIntentFallback(meta), GmailFallback(meta))

\* What the switch statement returns, from <<ios, androidIntent>>.
Out(pair, fallbackHttps) ==
    Returned(Descriptor(pair[1], pair[2], fallbackHttps, buildChromeScheme(fallbackHttps)))

\* The switch of buildDeepLink, d being what detectApp returned.  The default
\* case dereferences meta.u, which is undefined when detectApp returned from
\* its catch block: asHostPath(undefined) throws TypeError.
Switch(d, fallbackHttps, encFB) ==
    CASE d.app = Some("youtube") -> Out(YoutubeCase(Val(d.meta.u), encFB), fallbackHttps)
      [] d.app = Some("whatsapp") -> Out(WhatsappCase(Val(d.meta.u), encFB), fallbackHttps)
      [] d.app = Some("telegram") -> Out(TelegramCase(Val(d.meta.u), encFB), fallbackHttps)
      [] d.app = Some("instagram") -> Out(InstagramCase(Val(d.meta.u), encFB), fallbackHttps)
      [] d.app = Some("amazon") -> Out(AmazonCase(Val(d.meta.u), encFB), fallbackHttps)
      [] d.app = Some("twitter") -> Out(TwitterCase(Val(d.meta.u), encFB), fallbackHttps)
      [] d.app = Some("facebook") -> Out(FacebookCase(Val(d.meta.u), encFB), fallbackHttps)
      [] d.app = Some("gmail") -> Returned(GmailCase(d.meta))
      [] OTHER -> IF IsNull(d.meta.u) THEN Thrown("TypeError")
                  ELSE Out(DefaultCase(Val(d.meta.u), encFB), fallbackHttps)

\* buildDeepLink that embeds the browser fallback for Android callers only.
buildDeepLinkForAgent(urlStr, userAgent) ==
    Switch(detectApp(urlStr), urlStr,
           IF includes(userAgent, "Android") THEN encodeURIComponent(urlStr) ELSE "")

\* buildDeepLink(urlStr, userAgent): the descriptor, or the exception thrown.
buildDeepLink(urlStr, userAgent) ==
    Switch(detectApp(urlStr), urlStr, encodeURIComponent(urlStr))

----------------
(* backend/server.js: the inline script of the redirect page.              *)

\* navigator.userAgent || navigator.vendor || window.opera, as the regular
\* expression tests read it: window.opera is undefined outside Opera, and
\* RegExp.prototype.test converts undefined to the string "undefined".
UaString(env) ==
    IF env.userAgent # "" THEN env.userAgent
    ELSE IF env.vendor # "" THEN env.vendor
    ELSE "undefined"

\* A regular expression of one literal word with the flag i, tested on s: the
\* word occurs in s, letters compared without regard to case.
TestIgnoreCase(word, s) ==
    \E i \in 1..(Len(s) - Len(word) + 1) :
        \A k \in 1..Len(word) : LowerCh(Ch(s, i + k - 1)) = LowerCh(Ch(word, k))

\* /android/i.test(ua)
isAndroid(ua) == TestIgnoreCase("android", ua)
\* /iPhone|iPad|iPod/i.test(ua)
isIOS(ua) ==
    \/ TestIgnoreCase("iPhone", ua)
    \/ TestIgnoreCase("iPad", ua)
    \/ TestIgnoreCase("iPod", ua)

\* Branches of two independent if statements, not of an else-if chain.
BranchesIndependent(android, ios) ==
    (IF android THEN {"android"} ELSE {})
    \cup (IF ios THEN {"ios"} ELSE {})
    \cup (IF ~android /\ ~ios THEN {"other"} ELSE {})

\* The branches of the if / else if / else statement that run.
Branches(android, ios) ==
    IF android THEN {"android"} ELSE IF ios THEN {"ios"} ELSE {"other"}

AndroidFallbackDelay == 1200
IosChromeDelay == 700
IosFallbackDelay == 900

\* A navigation: which variable of the script (or the link) it went to.
Nav(what, href, by, at) == [what |-> what, href |-> href, by |-> by, at |-> at]

\* go(href) at time t: if (href) window.location.href = href
go(what, href, t) == IF Truthy(href) THEN <<Nav(what, Val(href), "script", t)>> ELSE <<>>

\* setTimeout(cb, delay) at time t
Timer(cb, delay, t) == [cb |-> cb, due |-> t + delay]

\* The effect of a run of code: the navigations issued, the timers set.
Effect(n, ts) == [navs |-> n, timers |-> ts]

\* AndroidBranch that takes a non-empty intent URL for a successful hand-off
\* and sets no timer.
AndroidBranchNoTimer(page, t) ==
    Effect(go("intentUrl", Some(page.intentUrl), t),
           IF page.intentUrl # "" THEN {}
           ELSE {Timer("androidFallback", AndroidFallbackDelay, t)})

AndroidBranch(page, t) ==
    Effect(go("intentUrl", Some(page.intentUrl), t),
           {Timer("androidFallback", AndroidFallbackDelay, t)})

\* IosBranch that waits for the app whether or not a scheme was tried.
IosBranchAlwaysWaits(page, t) ==
    Effect(go("iosUrl", page.iosUrl, t), {Timer("iosChrome", IosChromeDelay, t)})

IosBranch(page, t) ==
    Effect(go("iosUrl", page.iosUrl, t),
           {Timer("iosChrome", IF Truthy(page.iosUrl) THEN IosChromeDelay ELSE 0, t)})

\* OtherBranch that offers Chrome before the fallback, as the iOS branch does.
OtherBranchViaChrome(page, t) ==
    Effect(go("chromeScheme", Some(page.chromeScheme), t),
           {Timer("iosFallback", IosFallbackDelay, t)})

OtherBranch(page, t) == Effect(go("httpsFallback", Some(page.httpsFallback), t), {})

\* AndroidFallbackCallback that tries Chrome before the fallback.
AndroidFallbackViaChrome(page, t) ==
    Effect(go("chromeScheme", Some(page.chromeScheme), t)
               \o go("httpsFallback", Some(page.httpsFallback), t), {})

\* The timer callbacks, run at time t.
AndroidFallbackCallback(page, t) ==
    Effect(go("httpsFallback", Some(page.httpsFallback), t), {})

\* IosChromeCallback that stops at Chrome: it sets no timer for the fallback.
IosChromeCallbackStops(page, t) ==
    Effect(go("chromeScheme", Some(page.chromeScheme), t), {})

IosChromeCallback(page, t) ==
    Effect(go("chromeScheme", Some(page.chromeScheme), t),
           {Timer("iosFallback", IosFallbackDelay, t)})

IosFallbackCallback(page, t) ==
    Effect(go("httpsFallback", Some(page.httpsFallback), t), {})

Callback(cb, page, t) ==
    CASE cb = "androidFallback" -> AndroidFallbackCallback(page, t)
      [] cb = "iosChrome" -> IosChromeCallback(page, t)
      [] cb = "iosFallback" -> IosFallbackCallback(page, t)

\* What the branches b of the if statement do, at time t.
RunBranches(b, page, t) ==
    Effect((IF "android" \in b THEN AndroidBranch(page, t).navs ELSE <<>>)
               \o (IF "ios" \in b THEN IosBranch(page, t).navs ELSE <<>>)
               \o (IF "other" \in b THEN OtherBranch(page, t).navs ELSE <<>>),
           (IF "android" \in b THEN AndroidBranch(page, t).timers ELSE {})
               \cup (IF "ios" \in b THEN IosBranch(page, t).timers ELSE {})
               \cup (IF "other" \in b THEN OtherBranch(page, t).timers ELSE {}))

\* The immediately invoked function of the page, run at time t.
PlatformBranches(ua) == Branches(isAndroid(ua), isIOS(ua))
Script(page, env, t) == RunBranches(PlatformBranches(UaString(env)), page, t)

\* JSON.stringify of a string or null, over the modelled alphabet: the quote
\* and the backslash are escaped.
JsonStringify(m) ==
    IF IsNull(m) THEN "null"
    ELSE "\"" \o Concat([i \in 1..Len(Val(m)) |->
                  IF Ch(Val(m), i) \in {"\"", "\\"} THEN "\\" \o Ch(Val(m), i)
                  ELSE Ch(Val(m), i)]) \o "\""

\* The value of the body of a JavaScript string literal, from its pieces
\* between backslashes: a piece that follows a backslash starts with the
\* escaped character, and is empty when that character is a backslash.
RECURSIVE Unescape(_)
Unescape(pieces) ==
    IF pieces = <<>> THEN ""
    ELSE IF Len(pieces) = 1 THEN pieces[1]
    ELSE IF pieces[2] = "" THEN pieces[1] \o "\\" \o Unescape(Tail(Tail(pieces)))
    ELSE pieces[1] \o Unescape(Tail(pieces))

\* The value the script's var gets from the literal the server wrote.
Literal(src) ==
    IF src = "null" THEN Null
    ELSE Some(Unescape(Split(SubSeq(src, 2, Len(src) - 1), "\\")))

\* The value of an attribute written between double quotes: the text up to
\* the first double quote.
AttributeValue(text) == Cut(text, "\"").head

\* The four values of the script, from the literals the page embeds, and the
\* href of the "Open in Chrome" link.
Page(desc) ==
    [intentUrl |-> Val(Literal(JsonStringify(Some(desc.androidIntent)))),
     iosUrl |-> Literal(JsonStringify(desc.ios)),
     httpsFallback |-> Val(Literal(JsonStringify(Some(desc.fallbackHttps)))),
     chromeScheme |-> Val(Literal(JsonStringify(Some(desc.chromeScheme)))),
     openChrome |-> AttributeValue(desc.chromeScheme)]

----------------------------------------------------------------------------
(* Inputs.                                                                 *)

Hosts ==
    {"youtu.be", "www.youtu.be", "www.youtube.com", "m.YouTube.com",
     "wa.me", "api.whatsapp.com", "t.me", "telegram.org", "www.instagram.com",
     "www.amazon.in", "amazon.facebook.com", "twitter.com", "x.com", "netflix.com",
     "www.facebook.com", "mail.google.com", "example.org",
     "youtube.com.whatsapp.com"}
Paths ==
    {"", "/dQw4w9WgXcQ", "/watch", "/joinchat/AbCdEf123", "/abc", "/send/15551234567",
     "/p/Cxyz/", "/user/status/1234", "/mail/", "/mail/u/0/"}
Queries ==
    {"", "?v=abc", "?phone=155512&text=hi+there", "?view=cm&fs=1&to=a@b.com&su=Hi",
     "?compose=1&body=x%20y&cc=c@d.org#frag", "?fs=1"}

WebInputs ==
    {"https://" \o h \o p : h \in Hosts, p \in Paths}
    \cup {"https://" \o h \o "/watch" \o q : h \in Hosts, q \in Queries}
    \cup {"https://mail.google.com" \o p \o q : p \in Paths, q \in Queries}

OtherWebInputs ==
    {"http://example.org/anything", "HTTP://Example.org:80", "http://mail.google.com/mail/?fs=1",
     "https://example.org/a\"b\\c", "https:/wa.me/15551234567?text=hi",
     "https://user:pw@t.me:8443/some_channel", "https://example.org/a/../b c?x='1'#f g"}

MailInputs ==
    {"mailto:a@b.com?subject=Hi&body=Hello", "mailto:a@b.com", "mailto:",
     "mailto:a%40b.com?su=Hi&cc=c@d.org&bcc=e@f.org", "MAILTO:A@B.COM?body=x+y",
     "mailto:%zz", "mailto:a%@b.com?subject=Hi", "mailto:%ff@b.com", "mailto:?body=only"}

\* Telegram links around the limits of a user name.
TelegramInputs ==
    {"https://t.me/abcd", "https://t.me/abcde", "https://t.me/some_channel?start=1",
     "https://t.me/abcdefghijklmnopqrstuvwxyz_01234",
     "https://t.me/abcdefghijklmnopqrstuvwxyz_012345",
     "https://t.me/some-channel", "https://t.me/abcde/", "https://telegram.me/%61bcde",
     "https://www.t.me//abcde", "https://t.me/s/somechannel123"}

\* Strings that isValidUrl rejects.
RejectedInputs ==
    {"", "not a url", "example.org/path", "ftp://youtube.com/x", "tel:+15551234567",
     "https://", "//t.me/abc", "javascript:alert(1)", "intent://t.me/abc",
     "https://exa mple.org/"}

Inputs ==
    WebInputs \cup OtherWebInputs \cup MailInputs \cup TelegramInputs \cup RejectedInputs

\* The user-agent header of a request.
UserAgents ==
    {"", "Mozilla/5.0 (Linux; Android 13; Pixel 7) Chrome/120.0 Mobile Safari/537.36",
     "Mozilla/5.0 (iPhone; CPU iPhone OS 17_0 like Mac OS X) Version/17.0 Mobile Safari/604.1"}

\* The navigator of the browser that loads the page.
Browsers ==
    {[userAgent |-> "Mozilla/5.0 (Linux; Android 13; Pixel 7) Chrome/120.0 Mobile Safari/537.36",
      vendor |-> "Google Inc."],
     [userAgent |-> "Mozilla/5.0 (iPhone; CPU iPhone OS 17_0 like Mac OS X) Version/17.0 Mobile Safari/604.1",
      vendor |-> "Apple Computer, Inc."],
     [userAgent |-> "Mozilla/5.0 (iPad; CPU OS 16_6 like Mac OS X) Mobile/15E148", vendor |-> ""],
     [userAgent |-> "Mozilla/5.0 (Windows NT 10.0; Win64; x64) Chrome/120.0 Safari/537.36",
      vendor |-> "Google Inc."],
     [userAgent |-> "Mozilla/5.0 (Linux; U; ANDROID 4.0; like iPhone) Mobile", vendor |-> ""],
     [userAgent |-> "", vendor |-> "ipod vendor"],
     [userAgent |-> "", vendor |-> ""]}

\* Destination URLs of stored links that redirect views are opened for.
ViewUrls ==
    {"https://youtu.be/dQw4w9WgXcQ", "https://wa.me/15551234567?text=hi",
     "https://t.me/somechannel123", "https://t.me/joinchat/AbCdEf123",
     "mailto:a@b.com?subject=Hi&body=Hello", "mailto:%zz",
     "https://mail.google.com/mail/?compose=1&to=a@b.com",
     "https://example.org/anything", "https://example.org/a\"b\\c"}

\* How often the user clicks the "Open in Chrome" link of a page.
MaxClicks == 1

\* The url of the body of a create request: absent, or a string.
CreateUrls ==
    {Null, Some("ftp://example.org/file"), Some("https://youtu.be/dQw4w9WgXcQ"),
     Some("mailto:a@b.com?subject=Hi")}
\* The slug of the body of a create request: absent, or a string.
Slugs == {Null, Some("abcd"), Some(" abcd "), Some("ab"), Some("constructor")}
\* The ids of the paths /r/:id and /api/delete/:id requested.
PathIds == {"abcd", "x-9Z", "constructor", "nope"}
\* The user-agent headers of the requests for /r/:id.
ServerAgents ==
    {"Mozilla/5.0 (Linux; Android 13; Pixel 7) Chrome/120.0 Mobile Safari/537.36",
     "Mozilla/5.0 (iPhone; CPU iPhone OS 17_0 like Mac OS X) Version/17.0 Mobile Safari/604.1"}
\* The number of requests the server handles.
MaxRequests == 3

----------------------------------------------------------------------------
(* State.                                                                  *)

VARIABLES
    urlStr,     \* the destination URL: the url of a create request, item.url
    userAgent,  \* the user-agent header handed to buildDeepLink
    phase,      \* where the request, or the page, is
    valid,      \* isValidUrl(urlStr), once computed
    det,        \* detectApp(urlStr), once computed
    res,        \* buildDeepLink(urlStr, userAgent), once computed
    env,        \* the navigator of the browser
    page,       \* the values the script of the served page holds
    branches,   \* the branches of the script that ran
    navs,       \* the navigations issued, in order
    timers,     \* the timers set and not yet fired
    now,        \* milliseconds since the script ran
    clicks,     \* clicks on the "Open in Chrome" link
    linkStore,      \* const linkStore = {}: its own properties
    permanentLinks, \* const permanentLinks = {}: its own properties
    routes,     \* the routes of app, in the order of their registration
    requests,   \* the number of requests handled, which is the time Date.now() reads
    request,    \* the request handled last
    response,   \* the response it was given
    live,       \* per id, the URL of its last successful create not deleted since
    seen        \* the calls of buildDeepLink made, with their results

serverVars ==
    <<linkStore, permanentLinks, routes, requests, request, response, live, seen>>

vars ==
    <<urlStr, userAgent, phase, valid, det, res, env, page, branches, navs, timers,
      now, clicks, serverVars>>

None == [none |-> TRUE]
NoBrowser == [userAgent |-> "", vendor |-> ""]

\* Nothing is loaded in a browser.
NoView ==
    /\ env = NoBrowser
    /\ page = None
    /\ branches = {}
    /\ navs = <<>>
    /\ timers = {}
    /\ now = 0
    /\ clicks = 0

viewVars == <<env, page, branches, navs, timers, now, clicks>>

----------------------------------------------------------------------------
(* backend/server.js: the stores, the routes and the responses.            *)

\* Names that every object inherits from Object.prototype: for a store
\* without a property of its own by that name, store[name] is a function or
\* an object, which is truthy and has no url.
ProtoKeys == {"constructor", "toString", "valueOf", "hasOwnProperty", "__proto__"}

\* store[id]: the record stored, an inherited value, or undefined.
Lookup(store, id) ==
    IF id \in DOMAIN store THEN [type |-> "record", record |-> store[id]]
    ELSE IF id \in ProtoKeys THEN [type |-> "inherited"]
    ELSE [type |-> "undefined"]
\* The truthiness of store[id].
Found(item) == item.type # "undefined"

\* store[id] = data
Put(store, id, data) == [k \in DOMAIN store \cup {id} |-> IF k = id THEN data ELSE store[k]]
\* delete store[id]
Remove(store, id) == [k \in DOMAIN store \ {id} |-> store[k]]

\* A route of app: the first one registered that matches handles a request.
Route(method, path, handler) == [method |-> method, path |-> path, handler |-> handler]
\* The routes registered when the module is loaded.
InitialRoutes ==
    << Route("GET", "/", "index"), Route("POST", "/api/create", "create"),
       Route("GET", "/r/:id", "redirect"), Route("GET", "/r/:id", "redirectLinkStore"),
       Route("GET", "/cron/refresh", "cron") >>
\* The routes that the handler of POST /api/create registers each time it
\* runs with a valid URL.
NestedRoutes ==
    << Route("DELETE", "/api/delete/:id", "delete"), Route("GET", "/r/:id", "redirectStub") >>
Matching(rs, method, path) ==
    {i \in 1..Len(rs) : rs[i].method = method /\ rs[i].path = path}
HandlerOf(rs, method, path) ==
    IF Matching(rs, method, path) = {} THEN "none"
    ELSE rs[SetMin(Matching(rs, method, path))].handler

\* res.status(status).json(body), res.status(status).send(body)
Reply(status, body) == [status |-> status, body |-> body]
Failed(error) == [ok |-> FALSE, error |-> error]
\* A body that is text, not JSON.
Text(str) == [text |-> str]
\* What Express answers when no route matches, and when a handler throws.
NotRouted(method, path) == Reply(404, Text("Cannot " \o method \o " " \o path))
Crashed(error) == Reply(500, Text(error))

\* The headers of the requests, and req.protocol.
ClientHeaders ==
    [forwardedProto |-> Some("https,http"), protocol |-> "http",
     forwardedHost |-> Null, host |-> "localhost:3000"]
getOrigin(req) ==
    Split(OrElse(req.forwardedProto, req.protocol), ",")[1] \o "://"
        \o OrElse(req.forwardedHost, req.host)

MinSlugLen == 3
MaxSlugLen == 32
\* /^[a-zA-Z0-9_-]{3,32}$/.test(id)
IsSlug(id) ==
    Len(id) >= MinSlugLen /\ Len(id) <= MaxSlugLen /\ AllIn(id, AlNum \cup {"_", "-"})

\* linkStore[id] || permanentLinks[id]
SlugTaken(ls, pl, id) == Found(Lookup(ls, id)) \/ Found(Lookup(pl, id))

\* Values of generateId(3): four characters of the base64url alphabet.
GeneratedIds == {"abcd", "x-9Z"}

\* FreshIds without the loop: the first id generated is taken.
FreshIdsNoRetry(ls, pl) == GeneratedIds

\* do { id = generateId(3); } while (linkStore[id] || permanentLinks[id]): the
\* ids the loop can end with.
FreshIds(ls, pl) == {id \in GeneratedIds : ~SlugTaken(ls, pl, id)}

\* const data = { url, slug: id, createdAt: Date.now() }
LinkData(url, id, time) == [url |-> url, slug |-> id, createdAt |-> time]

\* The two stores, as a pair.
Stores(ls, pl) == [linkStore |-> ls, permanentLinks |-> pl]

\* permanentLinks[id] = data; linkStore[id] = data
StoreLink(ls, pl, id, data) == Stores(Put(ls, id, data), Put(pl, id, data))

\* DeleteLink that forgets linkStore.
DeletePermanentOnly(ls, pl, id) == Stores(ls, Remove(pl, id))

\* delete permanentLinks[id]; delete linkStore[id]
DeleteLink(ls, pl, id) == Stores(Remove(ls, id), Remove(pl, id))

\* buildDeepLink(item.url, ...) for item = permanentLinks[id]: an inherited
\* value has no url, detectApp(undefined) returns from its catch block and
\* buildChromeScheme(undefined) throws TypeError.
ResolveItem(item, ua) ==
    IF item.type = "record" THEN buildDeepLink(item.record.url, ua) ELSE Thrown("TypeError")
ItemUrl(item) == IF item.type = "record" THEN Some(item.record.url) ELSE Null

\* One call of buildDeepLink.
Call(url, ua, result) == [url |-> url, userAgent |-> ua, result |-> result]

\* The server before its first request; no request, no response.
NoServer ==
    /\ linkStore = <<>>
    /\ permanentLinks = <<>>
    /\ routes = InitialRoutes
    /\ requests = 0
    /\ request = None
    /\ response = None
    /\ live = <<>>
    /\ seen = {}

----------------------------------------------------------------------------
(* The resolver, applied to one destination URL.                           *)

ResolveInit ==
    /\ urlStr \in Inputs
    /\ userAgent \in UserAgents
    /\ phase = "input"
    /\ valid = FALSE
    /\ det = None
    /\ res = None
    /\ NoView
    /\ NoServer

\* POST /api/create validates the URL.
Validate ==
    /\ phase = "input"
    /\ valid' = isValidUrl(urlStr)
    /\ phase' = "validated"
    /\ UNCHANGED <<urlStr, userAgent, det, res, viewVars, serverVars>>

\* detectApp, on any string.
Classify ==
    /\ phase = "validated"
    /\ det' = detectApp(urlStr)
    /\ phase' = "classified"
    /\ UNCHANGED <<urlStr, userAgent, valid, res, viewVars, serverVars>>

\* buildDeepLink, which is called on the URLs of stored links only.
Resolve ==
    /\ phase = "classified"
    /\ valid
    /\ res' = buildDeepLink(urlStr, userAgent)
    /\ phase' = "resolved"
    /\ UNCHANGED <<urlStr, userAgent, valid, det, viewVars, serverVars>>

ResolveNext == Validate \/ Classify \/ Resolve

ResolveSpec == ResolveInit /\ [][ResolveNext]_vars

----------------------------------------------------------------------------
(* A redirect view: GET /r/:id for a stored link, and the page it serves.  *)

Init ==
    /\ urlStr \in {s \in ViewUrls : isValidUrl(s)}
    /\ userAgent = ""
    /\ phase = "request"
    /\ valid = TRUE
    /\ det = None
    /\ res = None
    /\ NoView
    /\ NoServer

\* The handler of GET /r/:id, for a browser b: an exception of buildDeepLink
\* is answered 500 and no page is served.
ServePage(b) ==
    /\ phase = "request"
    /\ userAgent' = b.userAgent
    /\ res' = buildDeepLink(urlStr, b.userAgent)
    /\ IF res'.threw
       THEN /\ phase' = "error500"
            /\ UNCHANGED viewVars
       ELSE /\ phase' = "served"
            /\ env' = b
            /\ page' = Page(res'.value)
            /\ UNCHANGED <<branches, navs, timers, now, clicks>>
    /\ UNCHANGED <<urlStr, valid, det, serverVars>>

\* The browser runs the inline script, to its end.
RunScript ==
    /\ phase = "served"
    /\ \E effect \in {Script(page, env, now)}, b \in {PlatformBranches(UaString(env))} :
           /\ navs' = navs \o effect.navs
           /\ timers' = timers \cup effect.timers
           /\ branches' = b
    /\ phase' = "running"
    /\ UNCHANGED <<urlStr, userAgent, valid, det, res, env, page, now, clicks, serverVars>>

\* The timer that is due first fires: time advances to it, its callback runs.
FireTimer(t) ==
    /\ phase = "running"
    /\ t \in timers
    /\ \A o \in timers : t.due <= o.due
    /\ now' = t.due
    /\ \E effect \in {Callback(t.cb, page, t.due)} :
           /\ navs' = navs \o effect.navs
           /\ timers' = (timers \ {t}) \cup effect.timers
    /\ UNCHANGED <<urlStr, userAgent, phase, valid, det, res, env, page, branches, clicks,
                   serverVars>>

\* The user clicks <a id="openChrome" href="${chromeScheme}">.
ClickOpenChrome ==
    /\ phase = "running"
    /\ clicks < MaxClicks
    /\ clicks' = clicks + 1
    /\ navs' = Append(navs, Nav("openChrome", page.openChrome, "user", now))
    /\ UNCHANGED <<urlStr, userAgent, phase, valid, det, res, env, page, branches, timers, now,
                   serverVars>>

Next ==
    \/ \E b \in Browsers : ServePage(b)
    \/ RunScript
    \/ \E t \in timers : FireTimer(t)
    \/ ClickOpenChrome

Spec == Init /\ [][Next]_vars

\* Timers that are set fire, and a loaded script runs.
FairSpec == Spec /\ WF_vars(RunScript) /\ WF_vars(\E t \in timers : FireTimer(t))

----------------------------------------------------------------------------
(* The server: its requests, handled one at a time.                        *)

ServerInit ==
    /\ urlStr = ""
    /\ userAgent = ""
    /\ phase = "listening"
    /\ valid = FALSE
    /\ det = None
    /\ res = None
    /\ NoView
    /\ NoServer

resolverVars == <<urlStr, userAgent, phase, valid, det, res>>

\* The handler stores the link under id and answers with it.
Created(url, id) ==
    /\ \E s \in {StoreLink(linkStore, permanentLinks, id, LinkData(url, id, requests))} :
           /\ linkStore' = s.linkStore
           /\ permanentLinks' = s.permanentLinks
    /\ response' = Reply(200, [ok |-> TRUE, id |-> id,
                               shortUrl |-> getOrigin(ClientHeaders) \o "/r/" \o id])
    /\ live' = Put(live, id, url)

\* The handler answers with an error and stores nothing.
Refused(status, error) ==
    /\ response' = Reply(status, Failed(error))
    /\ UNCHANGED <<linkStore, permanentLinks, live>>

\* POST /api/create with the body { url, slug }.  A request whose generated
\* ids are all in use never leaves the loop of the handler: it gets no answer.
Create(url, slug) ==
    /\ requests < MaxRequests
    /\ HandlerOf(routes, "POST", "/api/create") = "create"
    /\ requests' = requests + 1
    /\ request' = [method |-> "POST", path |-> "/api/create", url |-> url, slug |-> slug]
    /\ IF ~Truthy(url) \/ ~isValidUrl(Val(url))
       THEN /\ Refused(400, "Valid URL is required (http/https/mailto).")
            /\ UNCHANGED routes
       ELSE /\ routes' = routes \o NestedRoutes
            /\ \E id \in {trim(OrElse(slug, ""))} :
                   IF id # ""
                   THEN IF ~IsSlug(id)
                        THEN Refused(400, "Slug must be 3-32 chars (a-z, 0-9, -, _).")
                        ELSE IF SlugTaken(linkStore, permanentLinks, id)
                        THEN Refused(409, "Slug already in use.")
                        ELSE Created(Val(url), id)
                   ELSE \E gen \in FreshIds(linkStore, permanentLinks) :
                            Created(Val(url), gen)
    /\ UNCHANGED <<seen, resolverVars, viewVars>>

\* DELETE /api/delete/:id: its route exists once POST /api/create has run
\* with a valid URL.
Delete(id) ==
    /\ requests < MaxRequests
    /\ requests' = requests + 1
    /\ request' = [method |-> "DELETE", path |-> "/api/delete/:id", id |-> id]
    /\ IF HandlerOf(routes, "DELETE", "/api/delete/:id") = "none"
       THEN /\ response' = NotRouted("DELETE", "/api/delete/" \o id)
            /\ UNCHANGED <<linkStore, permanentLinks, live>>
       ELSE IF ~Found(Lookup(permanentLinks, id))
       THEN Refused(404, "Link not found")
       ELSE /\ \E s \in {DeleteLink(linkStore, permanentLinks, id)} :
                   /\ linkStore' = s.linkStore
                   /\ permanentLinks' = s.permanentLinks
            /\ response' = Reply(200, [ok |-> TRUE,
                               message |-> "Link " \o id \o " deleted successfully."])
            /\ live' = Remove(live, id)
    /\ UNCHANGED <<routes, seen, resolverVars, viewVars>>

\* GET /r/:id, which the first route registered for it handles: the routes
\* registered after it for the same path are never reached.
Redirect(id, ua) ==
    /\ requests < MaxRequests
    /\ HandlerOf(routes, "GET", "/r/:id") = "redirect"
    /\ requests' = requests + 1
    /\ request' = [method |-> "GET", path |-> "/r/:id", id |-> id, userAgent |-> ua]
    /\ \E item \in {Lookup(permanentLinks, id)} :
           IF ~Found(item)
           THEN /\ response' = Reply(404, Text("Link not found"))
                /\ UNCHANGED seen
           ELSE \E result \in {ResolveItem(item, ua)} :
                    /\ seen' = seen \cup {Call(ItemUrl(item), ua, result)}
                    /\ response' = IF result.threw THEN Crashed(result.error)
                                   ELSE Reply(200, Page(result.value))
    /\ UNCHANGED <<linkStore, permanentLinks, routes, live, resolverVars, viewVars>>

\* GET /cron/refresh
Cron ==
    /\ requests < MaxRequests
    /\ HandlerOf(routes, "GET", "/cron/refresh") = "cron"
    /\ requests' = requests + 1
    /\ request' = [method |-> "GET", path |-> "/cron/refresh"]
    /\ response' = Reply(200, [ok |-> TRUE, message |-> "refreshed"])
    /\ UNCHANGED <<linkStore, permanentLinks, routes, live, seen, resolverVars, viewVars>>

ServerNext ==
    \/ \E url \in CreateUrls, slug \in Slugs : Create(url, slug)
    \/ \E id \in PathIds : Delete(id)
    \/ \E id \in PathIds, ua \in ServerAgents : Redirect(id, ua)
    \/ Cron

ServerSpec == ServerInit /\ [][ServerNext]_vars

----------------------------------------------------------------------------
(* The resolver's properties, under ResolveSpec.                           *)

Resolved == phase = "resolved"
Described == phase = "resolved" /\ ~res.threw
IsWeb(u) == u.ok /\ (u.protocol = "http:" \/ u.protocol = "https:")

\* C1: buildDeepLink returns a descriptor, and does not throw, for every
\* destination URL that isValidUrl accepts, a mailto URL with a malformed
\* percent escape in its address included.
C1_ResolveTotal ==
    Resolved =>
        /\ isValidUrl(urlStr)
        /\ ~res.threw
        /\ DOMAIN res.value = {"ios", "androidIntent", "fallbackHttps", "chromeScheme"}

\* The value of the S.browser_fallback_url parameter of an intent URL.
BrowserFallback(intent) ==
    Cut(From(intent, LastIndexOf(intent, FallbackParam) + Len(FallbackParam)), ";").head

\* C2: in every descriptor buildDeepLink returns, the S.browser_fallback_url
\* parameter of androidIntent is encodeURIComponent(fallbackHttps).
C2_IntentEmbedsFallback ==
    Described =>
        /\ includes(res.value.androidIntent, FallbackParam)
        /\ BrowserFallback(res.value.androidIntent)
               = encodeURIComponent(res.value.fallbackHttps)

\* C3: the fallbackHttps of every descriptor returned for a validated URL has
\* the scheme http or https, and is the input itself when the input is an
\* http or https URL that is not classified Gmail.
C3_FallbackIsWeb ==
    Described =>
        /\ IsWeb(ParseURL(res.value.fallbackHttps))
        /\ (IsWeb(ParseURL(urlStr)) /\ det.app # Some("gmail"))
               => res.value.fallbackHttps = urlStr

\* A mailto link was resolved: its fallback is not the mailto URL.
C3_Witness ==
    /\ Described
    /\ ParseURL(urlStr).protocol = "mailto:"
    /\ res.value.fallbackHttps # urlStr

\* The rules of the classifier, as the specification lists them, in order.
RuleTag ==
    <<"gmail", "gmail", "youtube", "whatsapp", "telegram", "instagram", "amazon",
      "twitter", "facebook">>
RuleMatches(k, u, host) ==
    CASE k = 1 -> u.protocol = "mailto:"
      [] k = 2 -> /\ u.protocol # "mailto:"
                  /\ host = "mail.google.com"
                  /\ startsWith(u.pathname, "/mail/")
                  /\ \E kv \in {<<"view", "cm">>, <<"compose", "1">>, <<"fs", "1">>} :
                         get(searchParams(u), kv[1]) = Some(kv[2])
      [] k = 3 -> includes(host, "youtube.com") \/ host = "youtu.be"
      [] k = 4 -> host = "wa.me" \/ includes(host, "whatsapp.com")
      [] k = 5 -> host = "t.me" \/ includes(host, "telegram.me") \/ includes(host, "telegram.org")
      [] k = 6 -> includes(host, "instagram.com")
      [] k = 7 -> includes(host, "amazon.")
      [] k = 8 -> includes(host, "twitter.com") \/ includes(host, "x.com")
      [] k = 9 -> includes(host, "facebook.com")
FirstRule(K) == IF K = {} THEN Null ELSE Some(RuleTag[SetMin(K)])
ExpectedTagOf(u) ==
    IF ~u.ok THEN Null
    ELSE FirstRule({k \in 1..Len(RuleTag) : RuleMatches(k, u, StripWww(u.hostname))})

\* C10: detectApp gives every string exactly one tag, that of the first rule
\* that matches it, and Generic (null) to a string that matches no rule or is
\* no URL.
C10_FirstRuleWins ==
    phase \in {"classified", "resolved"} => det.app = ExpectedTagOf(ParseURL(urlStr))

----------------------------------------------------------------------------
(* The redirect sequence's properties, under Spec and FairSpec.            *)

\* The navigations the script issued: what it went to, where, and when.
ScriptNavs == SelectSeq(navs, LAMBDA n : n.by = "script")
Step(what, target, at) == Nav(what, target, "script", at)
IsPrefix(s, full) == Len(s) <= Len(full) /\ s = SubSeq(full, 1, Len(s))
Issued(what) == \E i \in 1..Len(navs) : navs[i].by = "script" /\ navs[i].what = what
Ran == phase = "running"
\* The descriptor the page was built from.
desc == res.value

FallbackIssued == Ran /\ Issued("httpsFallback")

\* C4: every served redirect view eventually navigates to fallbackUrl; it does
\* so once, as the last navigation of the script, with no timer left.
C4_FallbackTerminal ==
    /\ [](phase = "served" => <>FallbackIssued)
    /\ [](Ran =>
            /\ Cardinality({i \in 1..Len(navs) :
                   navs[i].by = "script" /\ navs[i].href = desc.fallbackHttps}) <= 1
            /\ FallbackIssued =>
                   /\ ScriptNavs[Len(ScriptNavs)].what = "httpsFallback"
                   /\ ScriptNavs[Len(ScriptNavs)].href = desc.fallbackHttps
                   /\ timers = {})

\* An iOS view of a link without an iOS scheme reached its fallback.
C4_Witness ==
    /\ FallbackIssued
    /\ branches = {"ios"}
    /\ IsNull(desc.ios)
    /\ Len(ScriptNavs) = 2

\* The iOS sequence: iosUrl at once when there is one, chromeUrl 700 ms after
\* the start then and at once otherwise, fallbackUrl 900 ms after chromeUrl.
IosSequence ==
    IF IsNull(desc.ios)
    THEN << Step("chromeScheme", desc.chromeScheme, 0),
            Step("httpsFallback", desc.fallbackHttps, 900) >>
    ELSE << Step("iosUrl", Val(desc.ios), 0),
            Step("chromeScheme", desc.chromeScheme, 700),
            Step("httpsFallback", desc.fallbackHttps, 1600) >>

\* C5: on iOS the script issues, in order and at these times, a prefix of the
\* iOS sequence.
C5_IosOrder ==
    (Ran /\ isIOS(UaString(env)) /\ ~isAndroid(UaString(env)))
        => IsPrefix(ScriptNavs, IosSequence)

C5_Witness ==
    /\ Ran
    /\ isIOS(UaString(env))
    /\ ~IsNull(desc.ios)
    /\ Len(ScriptNavs) = 3
    /\ now = 1600

\* C6: on Android the script navigates to androidIntentUrl as it runs, and to
\* fallbackUrl when its one timer fires 1200 ms later; until then the timer
\* stays set whatever else happens; it navigates nowhere else.
C6_AndroidSequence ==
    (Ran /\ isAndroid(UaString(env))) =>
        \/ /\ ScriptNavs = << Step("intentUrl", desc.androidIntent, 0) >>
           /\ timers = {[cb |-> "androidFallback", due |-> 1200]}
        \/ /\ ScriptNavs = << Step("intentUrl", desc.androidIntent, 0),
                              Step("httpsFallback", desc.fallbackHttps, 1200) >>
           /\ timers = {}

C6_Witness ==
    /\ Ran
    /\ isAndroid(UaString(env))
    /\ Len(ScriptNavs) = 2
    /\ clicks = 1

\* C7, as claimed: on no platform does the script navigate to chromeUrl.
C7_ChromeNeverAutomatic ==
    \A i \in 1..Len(navs) : navs[i].href = desc.chromeScheme => navs[i].by = "user"

\* C7, amended: the script navigates to chromeUrl on iOS only; on Android and
\* on the other platforms chromeUrl is reached by the user's click alone.
C7_ChromeAutomaticOnIosOnly ==
    \A i \in 1..Len(navs) :
        (navs[i].href = desc.chromeScheme /\ navs[i].by = "script")
            => (isIOS(UaString(env)) /\ ~isAndroid(UaString(env)))

C7_Witness ==
    /\ FallbackIssued
    /\ isAndroid(UaString(env))
    /\ \E i \in 1..Len(navs) : navs[i].href = desc.chromeScheme /\ navs[i].by = "user"

\* C8: on a platform that is neither Android nor iOS the script navigates to
\* fallbackUrl as it runs, sets no timer and navigates nowhere else.
C8_OtherDirect ==
    (Ran /\ ~isAndroid(UaString(env)) /\ ~isIOS(UaString(env))) =>
        /\ ScriptNavs = << Step("httpsFallback", desc.fallbackHttps, 0) >>
        /\ timers = {}

C8_Witness ==
    /\ Ran
    /\ ~isAndroid(UaString(env))
    /\ ~isIOS(UaString(env))
    /\ env.userAgent # ""
    /\ Len(ScriptNavs) = 1

\* The platform sequences a navigation or a timer belongs to.
SequencesOf(what) ==
    CASE what = "intentUrl" -> {"android"}
      [] what = "androidFallback" -> {"android"}
      [] what = "iosUrl" -> {"ios"}
      [] what = "chromeScheme" -> {"ios"}
      [] what = "iosChrome" -> {"ios"}
      [] what = "iosFallback" -> {"ios"}
      [] OTHER -> {"android", "ios", "other"}

\* C9: one platform sequence runs in a view: some sequence owns every
\* navigation of the script and every timer; a user agent with both
\* signatures runs the Android sequence.
C9_OneSequence ==
    Ran =>
        /\ Cardinality(branches) = 1
        /\ \E b \in {"android", "ios", "other"} :
               /\ \A i \in 1..Len(ScriptNavs) : b \in SequencesOf(ScriptNavs[i].what)
               /\ \A t \in timers : b \in SequencesOf(t.cb)
        /\ (isAndroid(UaString(env)) /\ isIOS(UaString(env)))
               => /\ branches = {"android"}
                  /\ \A i \in 1..Len(ScriptNavs) : "android" \in SequencesOf(ScriptNavs[i].what)

C9_Witness ==
    /\ Ran
    /\ isAndroid(UaString(env))
    /\ isIOS(UaString(env))
    /\ Issued("intentUrl")
    /\ Issued("httpsFallback")

----------------------------------------------------------------------------
(* The resolver's cases, under ResolveSpec.                                *)

\* One parameter of the web-compose URL: present when its value is not empty.
ComposeParam(name, value) ==
    IF value = "" THEN "" ELSE "&" \o name \o "=" \o FormEncode(value)

\* The Gmail web-compose URL of the fields f of a mailto URL.
WebComposeUrl(f) ==
    "https://mail.google.com/mail/?view=cm&fs=1"
    \o ComposeParam("to", f.to) \o ComposeParam("su", f.subject)
    \o ComposeParam("body", f.body) \o ComposeParam("cc", f.cc)
    \o ComposeParam("bcc", f.bcc)

\* The links of the descriptor d are those of the web-compose URL web.
DerivedFrom(d, web) ==
    /\ d.fallbackHttps = web
    /\ d.chromeScheme = "googlechrome://" \o From(web, Len("https://") + 1)
    /\ BrowserFallback(d.androidIntent) = encodeURIComponent(web)

IsMailto(str) == ParseURL(str).ok /\ ParseURL(str).protocol = "mailto:"

\* C11: every validated mailto URL is classified Gmail, and the fallbackHttps,
\* the chromeScheme and the browser fallback of the intent of its descriptor
\* come from the Gmail web-compose URL of its parsed fields.
C11_MailtoViaWebCompose ==
    (Resolved /\ IsMailto(urlStr)) =>
        /\ det.app = Some("gmail")
        /\ ~res.threw
        /\ ~parseMailto(urlStr).threw
        /\ DerivedFrom(res.value, WebComposeUrl(parseMailto(urlStr).value))

\* The host-path of an intent URL: what stands between intent:// and #Intent.
IntentHostPath(intent) == Cut(From(intent, Len("intent://") + 1), "#Intent").head

\* u is a short YouTube link: its host is youtu.be once a leading www. is
\* stripped, its path is one segment, the id, and it has no v parameter.
IsShortYoutube(u) ==
    /\ StripWww(u.hostname) = "youtu.be"
    /\ Len(u.pathname) > 1
    /\ ~includes(From(u.pathname, 2), "/")
    /\ IsNull(get(searchParams(u), "v"))

\* The links a short YouTube link with this id is to get.
WatchLinks(d, id) ==
    /\ d.ios = Some("youtube://watch?v=" \o id)
    /\ IntentHostPath(d.androidIntent) = "www.youtube.com/watch?v=" \o id

\* C12: a URL classified YouTube by the youtu.be rule, with an id in its path
\* and no v parameter, gets iosUrl youtube://watch?v=<id> and an intent whose
\* host-path is www.youtube.com/watch?v=<id>.
C12_ShortYoutubeNormalized ==
    (Described /\ det.app = Some("youtube") /\ IsShortYoutube(ParseURL(urlStr)))
        => WatchLinks(res.value, From(ParseURL(urlStr).pathname, 2))

\* A Telegram user name: 5 to 32 letters, digits and underscores.
IsTelegramName(path) ==
    /\ Len(path) >= 5
    /\ Len(path) <= 32
    /\ \A i \in 1..Len(path) : Ch(path, i) \in Chars(Lower) \cup Chars(Upper) \cup Digit \cup {"_"}

\* The links a Telegram URL with this path (its leading slash removed) gets.
TelegramExpected(d, path) ==
    /\ d.ios = IF IsTelegramName(path) THEN Some("tg://resolve?domain=" \o path) ELSE Null
    /\ startsWith(d.androidIntent, "intent://")
    /\ includes(d.androidIntent, ";package=org.telegram.messenger;")
    /\ d.fallbackHttps = urlStr

\* C14: for a URL classified Telegram, iosUrl is tg://resolve?domain=<name>
\* exactly when the path after its leading slash is a user name, and null for
\* every other path; the intent and the fallback are populated either way.
C14_TelegramUserOnly ==
    (Described /\ det.app = Some("telegram"))
        => TelegramExpected(res.value, From(ParseURL(urlStr).pathname, 2))

\* A Telegram link whose one-segment path is too long got no iosUrl.
C14_Witness ==
    /\ Described
    /\ det.app = Some("telegram")
    /\ IsNull(res.value.ios)
    /\ Len(ParseURL(urlStr).pathname) > 33
    /\ ~includes(From(ParseURL(urlStr).pathname, 2), "/")

----------------------------------------------------------------------------
(* The server's properties, under ServerSpec.                              *)

IsCreate(req) == req.path = "/api/create"
IsDelete(req) == req.path = "/api/delete/:id"
IsRedirect(req) == req.path = "/r/:id"
Keys == DOMAIN linkStore \cup DOMAIN permanentLinks
StoresUnchanged == UNCHANGED <<linkStore, permanentLinks>>

SlugPattern(s) ==
    /\ Len(s) >= 3
    /\ Len(s) <= 32
    /\ \A i \in 1..Len(s) : Ch(s, i) \in Chars(Lower) \cup Chars(Upper) \cup Digit \cup {"_", "-"}

\* No record of either store is overwritten or removed.
RecordsKept ==
    /\ \A id \in DOMAIN linkStore : id \in DOMAIN linkStore' /\ linkStore'[id] = linkStore[id]
    /\ \A id \in DOMAIN permanentLinks :
           id \in DOMAIN permanentLinks' /\ permanentLinks'[id] = permanentLinks[id]
ValidUrl(req) == Truthy(req.url) /\ isValidUrl(Val(req.url))

\* What a create request with the slug sent (or "" for none) is answered.
CreateAnswer(req, slug) ==
    /\ RecordsKept
    /\ (ValidUrl(req) /\ slug \in Keys) => (response'.status = 409 /\ StoresUnchanged)
    /\ (~ValidUrl(req) \/ (slug # "" /\ ~SlugPattern(slug)))
           => (response'.status = 400 /\ StoresUnchanged)
    /\ (ValidUrl(req) /\ slug = "" /\ response'.status = 200)
           => (response'.body.id \notin Keys /\ response'.body.id \in DOMAIN linkStore')

\* C15, as claimed: a create request overwrites no record; its slug being a
\* key is answered 409, its slug not matching the pattern or its URL being
\* invalid is answered 400, the stores unchanged; a generated id is no key.
C15_CreateWritesOnce ==
    [][IsCreate(request') => CreateAnswer(request', OrElse(request'.slug, ""))]_vars

\* C15, amended: the same, for the slug with the white space around it
\* removed; a slug that is empty then is no slug, and an id is generated.
C15_CreateWritesOnceTrimmed ==
    [][IsCreate(request') => CreateAnswer(request', trim(OrElse(request'.slug, "")))]_vars

\* A slug that is a key once trimmed was answered 409.
C15_Witness ==
    /\ requests > 0
    /\ IsCreate(request)
    /\ request.slug = Some(" abcd ")
    /\ response.status = 409
    /\ "abcd" \in Keys

\* C16: GET /r/:id serves the page of the URL of the last successful create
\* of the id not deleted since, and answers 404 Link not found for every
\* other id.
C16_LookupOrNotFound ==
    (requests > 0 /\ IsRedirect(request)) =>
        IF request.id \in DOMAIN live
        THEN /\ response.status = 200
             /\ ~buildDeepLink(live[request.id], request.userAgent).threw
             /\ response.body = Page(buildDeepLink(live[request.id], request.userAgent).value)
        ELSE response = Reply(404, Text("Link not found"))

\* C17: DELETE /api/delete/:id removes a live id from both stores, keeps
\* every other record and answers ok; for any other id it answers 404 Link
\* not found and changes neither store.
C17_DeleteOrNotFound ==
    [][IsDelete(request') =>
           IF request'.id \in DOMAIN live
           THEN /\ response'.status = 200
                /\ response'.body.ok
                /\ linkStore' = Remove(linkStore, request'.id)
                /\ permanentLinks' = Remove(permanentLinks, request'.id)
           ELSE /\ response' = Reply(404, Failed("Link not found"))
                /\ StoresUnchanged]_vars

\* C18: linkStore and permanentLinks hold the same ids and the same record
\* for each, so that a lookup gives the same in both, for every id.
C18_StoresAgree ==
    /\ linkStore = permanentLinks
    /\ \A id \in PathIds \cup GeneratedIds \cup ProtoKeys :
           Lookup(linkStore, id) = Lookup(permanentLinks, id)

\* A link was deleted while another one stayed.
C18_Witness ==
    /\ requests > 0
    /\ IsDelete(request)
    /\ response.status = 200
    /\ request.id \notin DOMAIN live
    /\ request.id \notin ProtoKeys
    /\ DOMAIN linkStore # {}
    /\ DOMAIN permanentLinks = DOMAIN live

====
